---- MODULE Spec2Model ----
(***************************************************************************)
(* gpsdio: the message stream wrapper (GPSDIOStream), the copy loop over   *)
(* two streams, and the filter generator of gpsdio/core.py.                *)
(***************************************************************************)
EXTENDS Naturals, Integers, Sequences, FiniteSets, TLC

VARIABLES
    mode,           \* GPSDIOStream._mode
    convert,        \* GPSDIOStream.convert
    skip_failures,  \* GPSDIOStream.skip_failures
    src,            \* the wrapped codec, read side: the records it emits, in order
    pos,            \* the wrapped codec, read side: number of records consumed so far
    closed,         \* the wrapped codec's `closed` attribute
    written,        \* the wrapped codec, write side: the mappings it accepted, in order
    ret,            \* how the last call on the stream ended
    dconvert,       \* copy loop: dst.convert
    dskip,          \* copy loop: dst.skip_failures
    pc,             \* copy loop / filter generator: position in the loop
    cur,            \* copy loop: the loop variable `msg`
    yielded,        \* copy loop: the items the `for` statement bound to `msg`, in order
    expressions,    \* filter: the expressions argument
    global_scope,   \* filter: the names of global_scope and of its '__builtins__'
    fi,             \* filter: index of the message the generator is working on
    fj,             \* filter: index of the expression to evaluate next
    evals,          \* filter: the evaluations made for the current message
    out,            \* filter: the messages yielded so far
    field,          \* sort: the field argument
    queue,          \* sort: the entries the PriorityQueue holds
    sout,           \* sort: the messages yielded so far
    oargs,          \* open: the arguments of the call and what its target is
    ores,           \* open: how the call ended and the handles it left behind
    FIELD_EXTENSIONS,           \* schema.FIELD_EXTENSIONS
    FIELDS_BY_TYPE_EXTENSIONS,  \* schema.FIELDS_BY_TYPE_EXTENSIONS
    loaded,         \* schema: number of extension entry points processed so far
    _HUMAN_TYPE_DESCRIPTION,    \* schema._HUMAN_TYPE_DESCRIPTION
    eps,            \* schema: the entry points processed so far, in order
    strict_keywords,  \* the interpreter rejects keywords that are not strings
    sres            \* schema: the last call of a schema function and its result

vars == <<mode, convert, skip_failures, src, pos, closed, written, ret,
          dconvert, dskip, pc, cur, yielded,
          expressions, global_scope, fi, fj, evals, out,
          field, queue, sout, oargs, ores,
          FIELD_EXTENSIONS, FIELDS_BY_TYPE_EXTENSIONS, loaded, sres,
          _HUMAN_TYPE_DESCRIPTION, eps, strict_keywords>>

streamVars == <<mode, convert, skip_failures, src, pos, closed, written, ret>>
copyVars == <<dconvert, dskip, cur, yielded>>
filterVars == <<expressions, global_scope, fi, fj, evals, out>>
sortVars == <<field, queue, sout>>
openVars == <<oargs, ores>>
regVars == <<_HUMAN_TYPE_DESCRIPTION, eps, strict_keywords>>
schemaVars == <<FIELD_EXTENSIONS, FIELDS_BY_TYPE_EXTENSIONS, loaded, sres, regVars>>
restVars == <<sortVars, openVars, schemaVars>>

---------------------------------------------------------------------------
(* Bounds *)

\* longest source a codec emits
MaxLen == 3
\* most mappings a codec sink accepts before the session ends
MaxWrites == 2
\* most expressions handed to filter
MaxExprs == 2
\* Most extension entry points processed at import time.
MaxExts == 2
\* Most tables passed to one call of merge_fields.
MaxTables == 3

---------------------------------------------------------------------------
(* Values and messages.  A value is tagged with its Python type: an int,  *)
(* a str, a datetime ("dt") or some other object ("obj").  A message is a *)
(* mapping from field names to values.  A str that spells a value in a    *)
(* legal way other than the canonical one is tagged "strx".               *)

Val(k, v) == [k |-> k, v |-> v]

None == [k |-> "None", v |-> 0]

\* {'mmsi': 1, 'type': 1}
MsgA == [f \in {"mmsi", "type"} |-> Val("int", 1)]
\* {'mmsi': 2, 'timestamp': '<time 3>'}, the timestamp as the codec stores it
MsgB == [f \in {"mmsi", "timestamp"} |->
            IF f = "mmsi" THEN Val("int", 2) ELSE Val("str", 3)]
\* MsgB as a reader with convert enabled hands it out: the timestamp a datetime
MsgBdt == [f \in {"mmsi", "timestamp"} |->
            IF f = "mmsi" THEN Val("int", 2) ELSE Val("dt", 3)]
\* MsgB with the same instant spelt in a legal, non-canonical way
MsgBx == [f \in {"mmsi", "timestamp"} |->
            IF f = "mmsi" THEN Val("int", 2) ELSE Val("strx", 3)]
\* {'timestamp': 'garbage'}: a timestamp string that does not parse
MsgBad == [f \in {"timestamp"} |-> Val("str", 0)]
\* {'mmsi': object()}: a value no codec can serialise
MsgObj == [f \in {"mmsi"} |-> Val("obj", 7)]

\* An item of a codec's source: a record it decodes, or one it raises on.
Rec(m) == [raises |-> FALSE, msg |-> m]
Broken == [raises |-> TRUE, msg |-> [f \in {} |-> None]]

SourceItems == {Rec(MsgA), Rec(MsgB), Rec(MsgBx), Rec(MsgBad), Broken}
WriteArgs == {MsgA, MsgB, MsgBdt, MsgObj}

SeqsUpTo(S, n) == UNION {[1..k -> S] : k \in 0..n}

---------------------------------------------------------------------------
(* Schema coercion, as the stream applies it field by field.               *)

\* The field names with a registered import / export function.
CoercedFields == {"timestamp"}

\* schema_import_functions[fld]: parses a string into a datetime, and raises
\* unless v is a well-formed string.
ImportFn(fld, v) == Val("dt", v.v)
ImportFnOk(fld, v) == v.k \in {"str", "strx"} /\ v.v > 0
\* schema_export_functions[fld]: formats a datetime as a string, in the
\* canonical spelling, and raises unless v is a datetime.
ExportFn(fld, v) == Val("str", v.v)
ExportFnOk(fld, v) == v.k = "dt"

\* schema_import_functions.get(fld, lambda x: x)(v)
Import(fld, v) == IF fld \in CoercedFields THEN ImportFn(fld, v) ELSE v
ImportOk(fld, v) == fld \in CoercedFields => ImportFnOk(fld, v)
\* The canonical representation of a legal value of a field.
Canonical(fld, v) ==
    IF fld \in CoercedFields /\ v.k = "strx" THEN Val("str", v.v) ELSE v
CanonicalMsg(m) == [f \in DOMAIN m |-> Canonical(f, m[f])]

\* A writer that looks no export function up.
Export_Identity(fld, v) == v

\* schema_export_functions.get(fld, lambda x: x)(v)
Export(fld, v) == IF fld \in CoercedFields THEN ExportFn(fld, v) ELSE v
ExportOk(fld, v) == fld \in CoercedFields => ExportFnOk(fld, v)

\* A comprehension that keeps only the fields with an import function.
ImportMsg_CoercedOnly(m) == [f \in DOMAIN m \cap CoercedFields |-> Import(f, m[f])]

\* The comprehension of __next__: every present field through its import function.
ImportMsg(m) == [f \in DOMAIN m |-> Import(f, m[f])]
ImportMsgOk(m) == \A f \in DOMAIN m : ImportOk(f, m[f])

\* The comprehension of write: six.iteritems(None) raises, like a failing export.
ExportMsg(m) == [f \in DOMAIN m |-> Export(f, m[f])]
ExportMsgOk(m) == m # None /\ \A f \in DOMAIN m : ExportOk(f, m[f])

\* What the codec's write(mapping) may do with a mapping: TRUE is "stored it",
\* FALSE is "raised".  Datetimes and foreign objects do not serialise; what a
\* codec does with None is its own business.
CodecAccepts(m) ==
    IF m = None THEN BOOLEAN
    ELSE {\A f \in DOMAIN m : m[f].k \in {"int", "str", "strx"}}

---------------------------------------------------------------------------
(* GPSDIOStream                                                            *)

\* How a call ended.  outcome: "IOError" is the stream-state error, "Exception" a
\* re-raised failure, "StopIteration" the end-of-stream signal, "return" a normal
\* return of `value`.  codec: the method of the wrapped codec the call invoked
\* ("none": it did not touch the codec); idx: the index of the source record a
\* pull consumed (0: none); arg: the argument of write; fwd: the mapping write
\* handed to the codec; stored: the codec accepted it.
Result(call, outcome, value, codec, idx, arg, fwd, stored) ==
    [call |-> call, outcome |-> outcome, value |-> value, codec |-> codec,
     idx |-> idx, arg |-> arg, fwd |-> fwd, stored |-> stored]

NoCall == Result("none", "return", None, "none", 0, None, None, FALSE)

\* __next__ without its mode check.
next_NoModeCheck(m, cl, conv, skip, s, p) ==
    IF cl THEN
        Result("next", "IOError", None, "none", 0, None, None, FALSE)
    ELSE IF p >= Len(s) THEN
        Result("next", "StopIteration", None, "next", 0, None, None, FALSE)
    ELSE IF s[p + 1].raises \/ (conv /\ ~ImportMsgOk(s[p + 1].msg)) THEN
        IF ~skip
        THEN Result("next", "Exception", None, "next", p + 1, None, None, FALSE)
        ELSE Result("next", "return", None, "next", p + 1, None, None, FALSE)
    ELSE
        Result("next", "return",
               IF conv THEN ImportMsg(s[p + 1].msg) ELSE s[p + 1].msg,
               "next", p + 1, None, None, FALSE)

\* __next__ without its closed check.
next_NoClosedCheck(m, cl, conv, skip, s, p) ==
    IF m # "r" THEN
        Result("next", "IOError", None, "none", 0, None, None, FALSE)
    ELSE next_NoModeCheck(m, FALSE, conv, skip, s, p)

\* __next__ with StopIteration caught by the general handler, so that the
\* skip_failures policy applies to it.
next_StopIterationSkipped(m, cl, conv, skip, s, p) ==
    IF m = "r" /\ ~cl /\ p >= Len(s) /\ skip
    THEN Result("next", "return", None, "next", 0, None, None, FALSE)
    ELSE next_NoModeCheck(IF m # "r" THEN m ELSE m, cl \/ m # "r", conv, skip, s, p)

\* __next__ that swallows every failure, whatever skip_failures says.
next_AlwaysSkip(m, cl, conv, skip, s, p) ==
    IF m # "r" \/ cl
    THEN Result("next", "IOError", None, "none", 0, None, None, FALSE)
    ELSE next_NoModeCheck(m, cl, conv, TRUE, s, p)

\* GPSDIOStream.__next__ on a stream (m, cl, conv, skip) whose codec has emitted
\* p of the records s.
next_(m, cl, conv, skip, s, p) ==
    IF m # "r" THEN
        Result("next", "IOError", None, "none", 0, None, None, FALSE)
    ELSE IF cl THEN
        Result("next", "IOError", None, "none", 0, None, None, FALSE)
    ELSE IF p >= Len(s) THEN
        Result("next", "StopIteration", None, "next", 0, None, None, FALSE)
    ELSE IF s[p + 1].raises \/ (conv /\ ~ImportMsgOk(s[p + 1].msg)) THEN
        IF ~skip
        THEN Result("next", "Exception", None, "next", p + 1, None, None, FALSE)
        ELSE Result("next", "return", None, "next", p + 1, None, None, FALSE)
    ELSE
        Result("next", "return",
               IF conv THEN ImportMsg(s[p + 1].msg) ELSE s[p + 1].msg,
               "next", p + 1, None, None, FALSE)

\* write that re-raises every failure, whatever skip_failures says.
write_AlwaysRaise(m, cl, conv, skip, msg, acc) ==
    IF m \notin {"w", "a"} \/ cl THEN
        Result("write", "IOError", None, "none", 0, msg, None, FALSE)
    ELSE IF conv /\ ~ExportMsgOk(msg) THEN
        Result("write", "Exception", None, "none", 0, msg, None, FALSE)
    ELSE
        LET fwd == IF conv THEN ExportMsg(msg) ELSE msg IN
        IF acc THEN Result("write", "return", None, "write", 0, msg, fwd, TRUE)
        ELSE Result("write", "Exception", None, "write", 0, msg, fwd, FALSE)

\* write that hands the codec the message as given, not as exported.
write_ForwardsRaw(m, cl, conv, skip, msg, acc) ==
    IF m \notin {"w", "a"} \/ cl THEN
        Result("write", "IOError", None, "none", 0, msg, None, FALSE)
    ELSE IF conv /\ ~ExportMsgOk(msg) THEN
        Result("write", IF ~skip THEN "Exception" ELSE "return",
               None, "none", 0, msg, None, FALSE)
    ELSE
        IF acc THEN Result("write", "return", None, "write", 0, msg, msg, TRUE)
        ELSE Result("write", IF ~skip THEN "Exception" ELSE "return",
                    None, "write", 0, msg, msg, FALSE)

\* GPSDIOStream.write(msg) on a stream (m, cl, conv, skip); acc is what the
\* codec's write does with the mapping handed to it.
write_(m, cl, conv, skip, msg, acc) ==
    IF m \notin {"w", "a"} THEN
        Result("write", "IOError", None, "none", 0, msg, None, FALSE)
    ELSE IF cl THEN
        Result("write", "IOError", None, "none", 0, msg, None, FALSE)
    ELSE IF conv /\ ~ExportMsgOk(msg) THEN
        Result("write", IF ~skip THEN "Exception" ELSE "return",
               None, "none", 0, msg, None, FALSE)
    ELSE
        LET fwd == IF conv THEN ExportMsg(msg) ELSE msg IN
        IF acc THEN Result("write", "return", None, "write", 0, msg, fwd, TRUE)
        ELSE Result("write", IF ~skip THEN "Exception" ELSE "return",
                    None, "write", 0, msg, fwd, FALSE)

\* The codec after a call that ended as r: a pull moves it past the record it
\* consumed, also when decoding that record raised; a mapping it accepted is
\* appended to what it holds.
PosAfter(r, p) == IF r.idx > 0 THEN r.idx ELSE p
WrittenAfter(r, w) == IF r.codec = "write" /\ r.stored THEN Append(w, r.fwd) ELSE w

\* The codec's close(): its handle is closed from then on.
CodecClose(cl) == TRUE

\* GPSDIOStream.close: self._stream.close()
close_(cl) == CodecClose(cl)

GPSDIOStream_next ==
    /\ pc = "api"
    /\ LET r == next_(mode, closed, convert, skip_failures, src, pos) IN
        /\ ret' = r
        /\ pos' = PosAfter(r, pos)
    /\ UNCHANGED <<mode, convert, skip_failures, src, closed, written>>
    /\ UNCHANGED <<pc, copyVars, filterVars>>
    /\ UNCHANGED restVars

GPSDIOStream_write ==
    /\ pc = "api"
    /\ Len(written) < MaxWrites
    /\ \E msg \in WriteArgs :
         \E acc \in CodecAccepts(IF convert /\ ExportMsgOk(msg) THEN ExportMsg(msg) ELSE msg) :
            LET r == write_(mode, closed, convert, skip_failures, msg, acc) IN
              /\ ret' = r
              /\ written' = WrittenAfter(r, written)
    /\ UNCHANGED <<mode, convert, skip_failures, src, pos, closed>>
    /\ UNCHANGED <<pc, copyVars, filterVars>>
    /\ UNCHANGED restVars

GPSDIOStream_close ==
    /\ pc = "api"
    /\ closed' = close_(closed)
    /\ ret' = Result("close", "return", None, "close", 0, None, None, FALSE)
    /\ UNCHANGED <<mode, convert, skip_failures, src, pos, written>>
    /\ UNCHANGED <<pc, copyVars, filterVars>>
    /\ UNCHANGED restVars

\* A stream as GPSDIOStream.__init__ leaves it, around a codec that is open.
Modes == {"r", "w", "a", "rb"}

IdleCopy ==
    /\ dconvert = FALSE /\ dskip = FALSE /\ cur = None /\ yielded = <<>>

IdleFilter ==
    /\ expressions = <<>> /\ global_scope = {} /\ fi = 0 /\ fj = 0
    /\ evals = <<>> /\ out = <<>>

IdleSort ==
    /\ field = "timestamp" /\ queue = <<>> /\ sout = <<>>

IdleOpen ==
    /\ oargs = <<>> /\ ores = <<>>

\* The schema module as its source text leaves the two registries: empty.
IdleSchema ==
    /\ FIELD_EXTENSIONS = <<>> /\ FIELDS_BY_TYPE_EXTENSIONS = <<>>
    /\ loaded = 0
    /\ sres = <<>>
    /\ _HUMAN_TYPE_DESCRIPTION = <<>> /\ eps = <<>> /\ strict_keywords = FALSE

IdleRest == IdleSort /\ IdleOpen /\ IdleSchema

Init ==
    /\ mode \in Modes
    /\ convert \in BOOLEAN
    /\ skip_failures \in BOOLEAN
    /\ src \in SeqsUpTo(SourceItems, MaxLen)
    /\ pos = 0
    /\ closed = FALSE
    /\ written = <<>>
    /\ ret = NoCall
    /\ pc = "api"
    /\ IdleCopy
    /\ IdleFilter
    /\ IdleRest

Next ==
    \/ GPSDIOStream_next
    \/ GPSDIOStream_write
    \/ GPSDIOStream_close

Spec == Init /\ [][Next]_vars

---------------------------------------------------------------------------
(* Properties of the stream under arbitrary call sequences (Spec)          *)

\* A source record is malformed for a reader when pulling it raises or, with
\* convert enabled, when a field's import function raises on it.
Malformed(item, conv) == item.raises \/ (conv /\ ~ImportMsgOk(item.msg))

\* C1: next() on a stream whose mode is not 'r', and write() on a stream whose
\* mode is neither 'w' nor 'a', fail with the stream-state error in every state,
\* and no record is ever pulled from, or forwarded to, the codec of such a stream.
C1_ModeEnforced ==
    /\ (ret.call = "next" /\ mode # "r") =>
            (ret.outcome = "IOError" /\ ret.codec = "none")
    /\ (ret.call = "write" /\ mode \notin {"w", "a"}) =>
            (ret.outcome = "IOError" /\ ret.codec = "none")
    /\ mode # "r" => pos = 0
    /\ mode \notin {"w", "a"} => written = <<>>

C1_Witness ==
    /\ ret.call = "next" /\ mode = "a" /\ closed
    /\ skip_failures /\ convert /\ Len(src) > 0 /\ Len(written) > 0

\* C2: a closed stream stays closed, and every next() or write() on it fails with
\* the stream-state error and leaves the codec's records where they are.
C2_ClosedIsTerminal ==
    [][closed =>
         /\ closed'
         /\ pos' = pos /\ written' = written
         /\ (ret'.call \in {"next", "write"} =>
                ret'.outcome = "IOError" /\ ret'.codec = "none")]_vars

C2_Witness ==
    /\ closed /\ ret.call = "next" /\ mode = "r" /\ skip_failures
    /\ pos > 0 /\ pos < Len(src)

\* C3: a next() on an open read-mode stream that consumed no record found the
\* codec exhausted, and ends with the end-of-stream signal whatever
\* skip_failures is; the signal is raised only at the end of the source.
C3_EndOfStreamPropagates ==
    /\ (ret.call = "next" /\ mode = "r" /\ ~closed /\ ret.idx = 0) =>
            (ret.outcome = "StopIteration" /\ pos = Len(src))
    /\ ret.outcome = "StopIteration" => pos = Len(src)

C3_Witness ==
    /\ ret.call = "next" /\ ret.outcome = "StopIteration"
    /\ skip_failures /\ Len(src) > 0

\* C5: with skip_failures false, a next() that consumed a malformed record
\* re-raises; no next() changes the stream's open state, mode, convert or
\* skip_failures; and the next() after a re-raised failure is accepted and
\* pulls the record that follows the failed one.
C5_RaiseLeavesStreamUsable ==
    /\ [](  (ret.call = "next" /\ ret.idx > 0 /\ ~skip_failures
             /\ Malformed(src[IF ret.idx > 0 THEN ret.idx ELSE 1], convert))
          => (ret.outcome = "Exception" /\ ~closed))
    /\ [][ret'.call = "next" =>
            UNCHANGED <<closed, mode, convert, skip_failures>>]_vars
    /\ [][(ret.call = "next" /\ ret.outcome = "Exception" /\ ret'.call = "next") =>
            /\ ret'.outcome # "IOError"
            /\ ret'.codec = "next"
            /\ (ret.idx < Len(src) => ret'.idx = ret.idx + 1 /\ pos' = ret.idx + 1)]_vars

C5_Witness ==
    /\ ret.call = "next" /\ ret.outcome = "Exception" /\ ~skip_failures
    /\ ~closed /\ ret.idx < Len(src)

\* A write whose export coercion or whose codec write failed.
WriteFailed(r, conv) ==
    (conv /\ ~ExportMsgOk(r.arg)) \/ (r.codec = "write" /\ ~r.stored)

\* A message the writer can export and the codec can store.
WellFormed(msg, conv) ==
    /\ conv => ExportMsgOk(msg)
    /\ CodecAccepts(IF conv THEN ExportMsg(msg) ELSE msg) = {TRUE}

\* C6: a failed write() on an open write/append stream is raised when
\* skip_failures is false and returns normally, nothing stored, when it is true;
\* no write() changes the stream's open state; and the write() of a well-formed
\* message that follows a failed one is forwarded to the codec.
C6_WriteFailurePolicy ==
    /\ [](  (ret.call = "write" /\ mode \in {"w", "a"} /\ ~closed
             /\ WriteFailed(ret, convert))
          => /\ ret.outcome = (IF skip_failures THEN "return" ELSE "Exception")
             /\ ~ret.stored)
    /\ [][ret'.call = "write" =>
            UNCHANGED <<closed, mode, convert, skip_failures>>]_vars
    /\ [][(/\ ret.call = "write" /\ mode \in {"w", "a"} /\ ~closed
           /\ WriteFailed(ret, convert)
           /\ ret'.call = "write" /\ WellFormed(ret'.arg, convert)) =>
            /\ ret'.outcome = "return"
            /\ ret'.stored
            /\ written' = Append(written,
                    IF convert THEN ExportMsg(ret'.arg) ELSE ret'.arg)]_vars

C6_Witness ==
    /\ ret.call = "write" /\ mode = "w" /\ ~closed /\ skip_failures
    /\ ret.codec = "write" /\ ~ret.stored /\ ret.outcome = "return"
    /\ Len(written) > 0

---------------------------------------------------------------------------
(* The copy loop of the module docstring and of the round-robin tests:     *)
(*     for msg in src: dst.write(msg)                                      *)
(* src is the stream (mode 'r') of the variables above; dst is a stream of *)
(* mode 'w' with flags dconvert, dskip around the sink `written`.          *)

\* The for statement asks src for its next item: GPSDIOStream.__iter__ returns
\* the stream itself, so the item is whatever __next__ returns.
Copy_for ==
    /\ pc = "for"
    /\ LET r == next_(mode, closed, convert, skip_failures, src, pos) IN
        /\ ret' = r
        /\ pos' = PosAfter(r, pos)
        /\ IF r.outcome = "return"
           THEN /\ cur' = r.value
                /\ yielded' = Append(yielded, r.value)
                /\ pc' = "body"
           ELSE /\ UNCHANGED <<cur, yielded>>
                /\ pc' = IF r.outcome = "StopIteration" THEN "done" ELSE "raised"
    /\ UNCHANGED <<mode, convert, skip_failures, src, closed, written>>
    /\ UNCHANGED <<dconvert, dskip, filterVars>>
    /\ UNCHANGED restVars

\* The loop body: dst.write(msg).
Copy_write ==
    /\ pc = "body"
    /\ \E acc \in CodecAccepts(IF dconvert /\ ExportMsgOk(cur) THEN ExportMsg(cur) ELSE cur) :
         LET r == write_("w", FALSE, dconvert, dskip, cur, acc) IN
           /\ ret' = r
           /\ written' = WrittenAfter(r, written)
           /\ pc' = IF r.outcome = "return" THEN "for" ELSE "raised"
    /\ UNCHANGED <<mode, convert, skip_failures, src, pos, closed>>
    /\ UNCHANGED <<copyVars, filterVars>>
    /\ UNCHANGED restVars

InitCopy ==
    /\ mode = "r"
    /\ convert \in BOOLEAN
    /\ skip_failures \in BOOLEAN
    /\ src \in SeqsUpTo(SourceItems, MaxLen)
    /\ pos = 0
    /\ closed = FALSE
    /\ written = <<>>
    /\ ret = NoCall
    /\ dconvert \in BOOLEAN
    /\ dskip \in BOOLEAN
    /\ pc = "for"
    /\ cur = None
    /\ yielded = <<>>
    /\ IdleFilter
    /\ IdleRest

NextCopy ==
    \/ Copy_for
    \/ Copy_write

SpecCopy == InitCopy /\ [][NextCopy]_vars

\* The malformed records of the source, for the reader's convert setting.
MalformedAt == {i \in 1..Len(src) : Malformed(src[i], convert)}

\* C4: with skip_failures true, a completed iteration over a source with exactly
\* one malformed record among N >= 1 well-formed ones has yielded exactly N
\* items, none of them None.
C4_SkipDropsMalformed ==
    (pc = "done" /\ skip_failures /\ Cardinality(MalformedAt) = 1 /\ Len(src) > 1) =>
        /\ Len(yielded) = Len(src) - 1
        /\ \A i \in 1..Len(yielded) : yielded[i] # None

\* What the reader hands out for a source record, and what the writer hands to
\* its codec for it.
Delivered(item) == IF convert THEN ImportMsg(item.msg) ELSE item.msg
Forwarded(item) == IF dconvert THEN ExportMsg(Delivered(item)) ELSE Delivered(item)

\* No record of the source fails on the way through the reader and the writer.
NoFailingRecord ==
    \A i \in 1..Len(src) :
        /\ ~Malformed(src[i], convert)
        /\ WellFormed(Delivered(src[i]), dconvert)

\* C7: in the copy loop over a source with no failing record, the mappings
\* forwarded to dst's codec are, one for one and in order, those of the records
\* src's codec emitted, and the loop ends without error when src's codec is
\* exhausted.
C7_CopyKeepsOrder ==
    NoFailingRecord =>
        /\ pc # "raised"
        /\ Len(written) <= Len(src)
        /\ \A i \in 1..Len(written) : written[i] = Forwarded(src[i])
        /\ pc = "for" => Len(written) = pos
        /\ pc = "body" => Len(written) = pos - 1
        /\ pc = "done" => Len(written) = Len(src)

\* The field names of the source records and, for each, the legal values the
\* records hold: those its import function accepts.
FieldNames == UNION {DOMAIN it.msg : it \in SourceItems}
LegalValues(fld) ==
    {it.msg[fld] : it \in {x \in SourceItems : fld \in DOMAIN x.msg /\ ImportOk(fld, x.msg[fld])}}

C7_Witness ==
    /\ pc = "done" /\ NoFailingRecord /\ convert /\ dconvert
    /\ Len(src) >= 2 /\ src[1] # src[2] /\ Len(written) = Len(src)

---------------------------------------------------------------------------
(* filter(expressions, stream)                                             *)

\* {'mmsi': 0, 'type': 5}: a message with a falsy field
MsgZero == [f \in {"mmsi", "type"} |->
            IF f = "mmsi" THEN Val("int", 0) ELSE Val("int", 5)]

FilterItems == {Rec(MsgA), Rec(MsgB), Rec(MsgZero), Rec(MsgBad)}

\* An expression: `name == rhs` ("eq"), `name != rhs` ("ne"), `name` alone
\* ("truthy"), or `'name' in msg` ("has").
Expr(op, name, rhs) == [op |-> op, name |-> name, rhs |-> rhs]

Exprs ==
    {Expr("eq", "mmsi", 1), Expr("ne", "type", 5), Expr("truthy", "mmsi", 0),
     Expr("has", "timestamp", 0), Expr("truthy", "open", 0)}

\* The names bound at module level in core.py: globals().
ModuleGlobals ==
    {"__name__", "__doc__", "__file__", "__builtins__", "__all__",
     "logging", "sys", "six", "schema", "logger",
     "open", "GPSDIOStream", "filter", "sort"}

\* Names of the interpreter's built-in scope: globals()['__builtins__'].
PythonBuiltins ==
    {"eval", "compile", "exec", "execfile", "globals", "locals",
     "__import__", "open", "getattr", "type", "id", "len", "filter"}

scope_blacklist ==
    {"eval", "compile", "exec", "execfile", "builtin", "builtins",
     "__builtin__", "__builtins__", "globals", "locals"}

\* global_scope as filter builds it: the keys of the dict handed to eval as its
\* globals, and the keys of its '__builtins__' entry.
BuildGlobalScope ==
    [globals  |-> (ModuleGlobals \ {"builtins", "__builtins__"})
                    \cup {"__builtins__", "builtins"},
     builtins |-> PythonBuiltins \ scope_blacklist]

\* local_scope: a copy of the message plus 'msg', the message itself.
LocalNames(m) == DOMAIN m \cup {"msg"}

\* Name resolution of eval(expr, global_scope, local_scope): locals, then
\* globals, then the globals' '__builtins__'; otherwise NameError.
Lookup(name, m, gs) ==
    IF name = "msg" THEN [found |-> TRUE, val |-> Val("obj", 0)]
    ELSE IF name \in DOMAIN m THEN [found |-> TRUE, val |-> m[name]]
    ELSE IF name \in gs.globals \/ name \in gs.builtins
         THEN [found |-> TRUE, val |-> Val("obj", 1)]
    ELSE [found |-> FALSE, val |-> None]

\* bool(v)
Truth(v) == IF v.k = "int" THEN v.v # 0 ELSE v.k # "None"

\* eval(expr, global_scope, local_scope) followed by `except NameError: result =
\* False`: raised says that NameError was caught, result is bool(result).
Eval(e, m, gs) ==
    IF e.op = "has" THEN [raised |-> FALSE, result |-> e.name \in DOMAIN m]
    ELSE LET l == Lookup(e.name, m, gs) IN
         IF ~l.found THEN [raised |-> TRUE, result |-> FALSE]
         ELSE [raised |-> FALSE,
               result |-> CASE e.op = "eq" -> l.val = Val("int", e.rhs)
                            [] e.op = "ne" -> l.val # Val("int", e.rhs)
                            [] OTHER -> Truth(l.val)]

\* A loop over the expressions that never breaks.
Breaks_Never(r) == FALSE

\* `if not result: break`
Breaks(r) == ~r.result

\* `yield msg`: the message object taken from the stream, identified by its
\* position in the source.
Yield(i, m) == [obj |-> i, val |-> m]

\* filter's body up to its loop: the expressions tuple and global_scope.
Filter_start ==
    /\ pc = "start"
    /\ global_scope' = BuildGlobalScope
    /\ pc' = "pull"
    /\ UNCHANGED <<streamVars, copyVars, expressions, fi, fj, evals, out>>
    /\ UNCHANGED restVars

\* `for msg in stream`: the next message, or the end of the generator.
Filter_pull ==
    /\ pc = "pull"
    /\ IF pos < Len(src)
       THEN /\ pos' = pos + 1
            /\ fi' = pos + 1
            /\ fj' = 1
            /\ evals' = <<>>
            /\ pc' = "eval"
       ELSE /\ pc' = "done"
            /\ UNCHANGED <<pos, fi, fj, evals>>
    /\ UNCHANGED <<mode, convert, skip_failures, src, closed, written, ret>>
    /\ UNCHANGED <<copyVars, expressions, global_scope, out>>
    /\ UNCHANGED restVars

\* One turn of `for expr in expressions`.
Filter_eval ==
    /\ pc = "eval"
    /\ fj <= Len(expressions)
    /\ LET r == Eval(expressions[fj], src[fi].msg, global_scope) IN
        /\ evals' = Append(evals, [e |-> fj, raised |-> r.raised, result |-> r.result])
        /\ IF Breaks(r)
           THEN pc' = "pull" /\ fj' = fj
           ELSE pc' = "eval" /\ fj' = fj + 1
    /\ UNCHANGED <<streamVars, copyVars, expressions, global_scope, fi, out>>
    /\ UNCHANGED restVars

\* The `else` of the loop over the expressions: it ran to its end.
Filter_yield ==
    /\ pc = "eval"
    /\ fj > Len(expressions)
    /\ out' = Append(out, Yield(fi, src[fi].msg))
    /\ pc' = "pull"
    /\ UNCHANGED <<streamVars, copyVars, expressions, global_scope, fi, fj, evals>>
    /\ UNCHANGED restVars

InitFilter ==
    /\ mode = "r"
    /\ convert = FALSE
    /\ skip_failures = FALSE
    /\ src \in SeqsUpTo(FilterItems, MaxLen)
    /\ pos = 0
    /\ closed = FALSE
    /\ written = <<>>
    /\ ret = NoCall
    /\ IdleCopy
    /\ expressions \in SeqsUpTo(Exprs, MaxExprs)
    /\ global_scope = {}
    /\ fi = 0
    /\ fj = 0
    /\ evals = <<>>
    /\ out = <<>>
    /\ pc = "start"
    /\ IdleRest

NextFilter ==
    \/ Filter_start
    \/ Filter_pull
    \/ Filter_eval
    \/ Filter_yield

SpecFilter == InitFilter /\ [][NextFilter]_vars

\* The messages of the source the generator has finished with.
Handled == IF pc = "eval" THEN fi - 1 ELSE pos

\* every expression evaluates truthy for message m
Passes(m) ==
    \A j \in 1..Len(expressions) : Eval(expressions[j], m, BuildGlobalScope).result

\* C8: what filter has yielded is exactly the handled source messages for which
\* every expression evaluates truthy: each the source's own object with its
\* content untouched, each once, in source order; with no expression at all it
\* yields every source message.
C8_FilterYieldsPassing ==
    /\ \A n \in 1..Len(out) :
          /\ out[n].obj \in 1..Handled
          /\ out[n].val = src[out[n].obj].msg
          /\ Passes(src[out[n].obj].msg)
          /\ n > 1 => out[n - 1].obj < out[n].obj
    /\ \A i \in 1..Handled :
          Passes(src[i].msg) => \E n \in 1..Len(out) : out[n].obj = i
    /\ (expressions = <<>> /\ pc = "done") =>
          /\ Len(out) = Len(src)
          /\ \A i \in 1..Len(src) : out[i] = [obj |-> i, val |-> src[i].msg]

C8_Witness ==
    /\ pc = "done" /\ Len(expressions) = 2 /\ Len(src) = 3
    /\ Len(out) = 1 /\ out[1].obj = 2
    /\ Len(evals) = 1 /\ evals[1].raised

\* C9: an evaluated expression that refers to a name which is not a field of the
\* current message gives false, is the last one evaluated for that message, and
\* the message is not yielded.
C9_AbsentFieldIsFalse ==
    \A n \in 1..Len(evals) :
        LET e == expressions[evals[n].e] IN
        (e.op # "has" /\ e.name \notin DOMAIN src[fi].msg) =>
            /\ ~evals[n].result
            /\ n = Len(evals)
            /\ \A k \in 1..Len(out) : out[k].obj # fi

\* C10: while an expression is evaluated, the names it can resolve (local scope,
\* global scope, built-ins) are the current message's fields and 'msg' only.
C10_ScopeIsMessageOnly ==
    pc = "eval" =>
        (LocalNames(src[fi].msg) \cup global_scope.globals \cup global_scope.builtins)
            \subseteq (DOMAIN src[fi].msg \cup {"msg"})

---------------------------------------------------------------------------
(* sort(stream, field)                                                     *)

IdleStream ==
    /\ mode = "r" /\ convert = FALSE /\ skip_failures = FALSE
    /\ src = <<>> /\ pos = 0 /\ closed = FALSE /\ written = <<>> /\ ret = NoCall

\* {'mmsi': id, 'timestamp': ts}, both numbers
MsgT(ts, id) == [f \in {"mmsi", "timestamp"} |->
                    IF f = "mmsi" THEN Val("int", id) ELSE Val("int", ts)]

\* Messages with and without a timestamp; some share a timestamp or an mmsi.
SortItems ==
    {Rec(MsgT(3, 1)), Rec(MsgT(1, 2)), Rec(MsgT(2, 3)), Rec(MsgT(1, 3)), Rec(MsgA)}

\* `if field in msg`
Keeps(f, m) == f \in DOMAIN m

\* The tuple (msg[field], msg) handed to queue.put; obj is the position of the
\* message object in the source.
Entry(f, i, m) == [key |-> m[f], obj |-> i, msg |-> m]

\* The entries of q whose key no other entry's key is below.
MinEntries(q) ==
    {n \in 1..Len(q) : \A k \in 1..Len(q) : q[n].key.v <= q[k].key.v}

\* A queue.Queue in place of the PriorityQueue: first in, first out.
QueueGet_Fifo(q) == {1}

\* queue.get(): the position in q of an entry it may return.  Entries are
\* ordered as tuples, by key first; among entries of equal key the order is
\* that of the message dicts, which is no order the program chooses.
QueueGet(q) == MinEntries(q)

\* Two tuples of equal key make the queue compare the message dicts themselves;
\* where dicts are unorderable that comparison raises TypeError, unless the
\* dicts are equal, which makes the tuples equal.
TieIn(q) ==
    \E n, k \in 1..Len(q) : n # k /\ q[n].key = q[k].key /\ q[n].msg # q[k].msg

Remove(q, n) == SubSeq(q, 1, n - 1) \o SubSeq(q, n + 1, Len(q))

\* A generator that hands out what it has while it is still reading.
CanYield_Early(p) == p \in {"fill", "drain"}

\* The `while` loop follows the `for` loop: nothing is yielded before the
\* stream has raised StopIteration.
CanYield(p) == p = "drain"

\* One turn of `for msg in stream`, or its end on StopIteration.
Sort_pull ==
    /\ pc = "fill"
    /\ IF pos < Len(src)
       THEN /\ pos' = pos + 1
            /\ LET m == src[pos + 1].msg IN
               IF Keeps(field, m)
               THEN LET q == Append(queue, Entry(field, pos + 1, m)) IN
                    /\ queue' = q
                    /\ \/ pc' = "fill"
                       \/ TieIn(q) /\ pc' = "raised"
               ELSE queue' = queue /\ pc' = "fill"
       ELSE /\ pc' = "drain"
            /\ UNCHANGED <<pos, queue>>
    /\ UNCHANGED <<mode, convert, skip_failures, src, closed, written, ret>>
    /\ UNCHANGED <<copyVars, filterVars, field, sout, openVars, schemaVars>>

\* One turn of `while not queue.empty(): yield queue.get()[1]`, or its end.
Sort_get ==
    /\ CanYield(pc)
    /\ IF queue = <<>>
       THEN pc' = "done" /\ UNCHANGED <<queue, sout>>
       ELSE \/ \E n \in QueueGet(queue) :
                  /\ sout' = Append(sout, Yield(queue[n].obj, queue[n].msg))
                  /\ queue' = Remove(queue, n)
                  /\ pc' = pc
            \/ TieIn(queue) /\ pc' = "raised" /\ UNCHANGED <<queue, sout>>
    /\ UNCHANGED <<streamVars, copyVars, filterVars, field, openVars, schemaVars>>

InitSort ==
    /\ mode = "r" /\ convert = FALSE /\ skip_failures = FALSE
    /\ src \in SeqsUpTo(SortItems, MaxLen)
    /\ pos = 0 /\ closed = FALSE /\ written = <<>> /\ ret = NoCall
    /\ IdleCopy
    /\ IdleFilter
    /\ field \in {"timestamp", "mmsi"}
    /\ queue = <<>>
    /\ sout = <<>>
    /\ IdleOpen
    /\ IdleSchema
    /\ pc = "fill"

NextSort ==
    \/ Sort_pull
    \/ Sort_get

SpecSort == InitSort /\ [][NextSort]_vars

\* The source messages that carry the sort field.
WithField == {i \in 1..Len(src) : field \in DOMAIN src[i].msg}

\* No two source messages carry the same value of the sort field.
DistinctKeys ==
    \A i, j \in WithField : i # j => src[i].msg[field] # src[j].msg[field]

\* C11: over a source whose messages carry pairwise distinct values of the
\* field, sort never raises, yields source messages that carry the field, each
\* at most once and unchanged, in ascending order of the field, and by the time
\* it ends has yielded every one of them and none of the others.
C11_SortAscending ==
    DistinctKeys =>
        /\ pc # "raised"
        /\ \A n \in 1..Len(sout) :
              /\ sout[n].obj \in WithField
              /\ sout[n].val = src[sout[n].obj].msg
              /\ n > 1 => sout[n - 1].val[field].v < sout[n].val[field].v
        /\ pc = "done" => {sout[n].obj : n \in 1..Len(sout)} = WithField
        /\ pc = "done" => Len(sout) = Cardinality(WithField)

\* timestamps [3, 1, 2] with a message without timestamp among them
C11_Witness ==
    /\ pc = "done" /\ field = "timestamp"
    /\ src = <<Rec(MsgT(3, 1)), Rec(MsgA), Rec(MsgT(1, 2))>>
    /\ sout = <<Yield(3, MsgT(1, 2)), Yield(1, MsgT(3, 1))>>

\* C12: when sort has yielded something the stream has been read to its end and
\* has signalled it, and from then on sort does not pull from the stream.
C12_SortIsEager ==
    /\ [](Len(sout) > 0 => (pos = Len(src) /\ pc \in {"drain", "done", "raised"}))
    /\ [][Len(sout') > 0 => (pos' = pos /\ pc # "fill" /\ pc' # "fill")]_vars

C12_Witness ==
    /\ Len(sout) = 1 /\ Len(queue) = 2 /\ pc = "drain" /\ Len(src) = 3

---------------------------------------------------------------------------
(* open(path, mode, compression, driver) and the `with` statement          *)

\* gpsdio.drivers.registered_drivers and registered_compression: their keys.
registered_drivers == {"NewlineJSON", "MsgPack"}
registered_compression == {"GZIP", "BZ2"}

\* An argument left at its default None (or given as '').
Omitted == ""

\* The arguments of a call and the facts about its target that decide it.
\*   target: "path" a path string, "file" an open file-like object, "dash" '-';
\*   drv, comp: the driver detect_file_type and detect_compression_type find
\*       from the target's name (Omitted: detection fails);
\*   driver, compression: the arguments;
\*   compOk: the compression driver can operate on the target in this mode;
\*   codecOk: the codec driver's construction succeeds.
OpenArgs ==
    [target : {"path", "file", "dash"},
     drv : registered_drivers \cup {Omitted},
     comp : registered_compression \cup {Omitted},
     mode : {"r", "w", "a"},
     driver : {Omitted, "NewlineJSON", "bad-name"},
     compression : {Omitted, "GZIP", "bad-name"},
     compOk : BOOLEAN,
     codecOk : BOOLEAN]

\* `path` after lines 62-65: '-' has become sys.stdin or sys.stdout, whose name
\* tells nothing; a file-like object and a path keep their name.
NameOf(a) ==
    IF a.target = "dash" THEN [drv |-> Omitted, comp |-> Omitted]
    ELSE [drv |-> a.drv, comp |-> a.comp]

\* isinstance(path, six.string_types), after '-' has been replaced
IsString(a) == a.target = "path"

Found(d) == [err |-> "", drv |-> d]
Failed(e) == [err |-> e, drv |-> Omitted]

\* A registry that answers None for a name it does not hold.
resolve_Lenient(registry, name) == IF name \in registry THEN Found(name) ELSE Found(Omitted)

\* registry[name]: the driver registered under the name, or KeyError.
resolve(registry, name) ==
    IF name \in registry THEN Found(name) ELSE Failed("KeyError")

\* detect_file_type(name) / detect_compression_type(path): the driver the name
\* tells, or the detection error (a ValueError for compression).
detect(found, error) == IF found # Omitted THEN Found(found) ELSE Failed(error)

\* io_driver, lines 82-85 and 98-101
io_driver_of(a) ==
    IF a.driver # Omitted THEN resolve(registered_drivers, a.driver)
    ELSE detect(NameOf(a).drv, "DetectError")

\* comp_driver with the detection of line 109 left unguarded.
comp_driver_of_Unguarded(a) ==
    IF a.compression # Omitted THEN resolve(registered_compression, a.compression)
    ELSE IF ~IsString(a) THEN Found(Omitted)
    ELSE detect(NameOf(a).comp, "ValueError")

\* comp_driver with no detection for any target.
comp_driver_of_NeverDetects(a) ==
    IF a.compression # Omitted THEN resolve(registered_compression, a.compression)
    ELSE Found(Omitted)

\* comp_driver, lines 90-93 and 103-111
comp_driver_of(a) ==
    IF a.compression # Omitted THEN resolve(registered_compression, a.compression)
    ELSE IF ~IsString(a) THEN Found(Omitted)
    ELSE LET d == detect(NameOf(a).comp, "ValueError") IN
         IF d.err = "ValueError" THEN Found(Omitted) ELSE d

\* c_stream that falls back to the raw target when the compression driver fails.
c_stream_of_Fallback(a, comp) ==
    IF comp # Omitted /\ a.compOk THEN [err |-> "", is |-> "comp"]
    ELSE [err |-> "", is |-> "target"]

\* c_stream, lines 116-119: the compression driver's handle, or the target.
c_stream_of(a, comp) ==
    IF comp # Omitted
    THEN IF a.compOk THEN [err |-> "", is |-> "comp"]
         ELSE [err |-> "IOError", is |-> "none"]
    ELSE [err |-> "", is |-> "target"]

\* What a call leaves behind.  outcome: "Stream" or the error raised;
\* comp_handle / codec_handle: "none" never opened, "open", "closed";
\* c_stream: what the codec driver was given; exc / propagated: the `with`
\* block was left by an exception / the exception went on to the caller.
OpenResult(outcome, io, comp, ch, kh, cs) ==
    [outcome |-> outcome, io_driver |-> io, comp_driver |-> comp,
     comp_handle |-> ch, codec_handle |-> kh, c_stream |-> cs,
     exc |-> FALSE, propagated |-> FALSE]

\* open(), lines 62-125
open_(a) ==
    LET io == io_driver_of(a) IN
    IF io.err # "" THEN OpenResult(io.err, Omitted, Omitted, "none", "none", "none")
    ELSE
    LET comp == comp_driver_of(a) IN
    IF comp.err # "" THEN OpenResult(comp.err, io.drv, Omitted, "none", "none", "none")
    ELSE
    LET cs == c_stream_of(a, comp.drv) IN
    IF cs.err # "" THEN OpenResult(cs.err, io.drv, comp.drv, "none", "none", "none")
    ELSE
    LET ch == IF cs.is = "comp" THEN "open" ELSE "none" IN
    IF ~a.codecOk THEN OpenResult("DriverError", io.drv, comp.drv, ch, "none", cs.is)
    ELSE OpenResult("Stream", io.drv, comp.drv, ch, "open", cs.is)

\* GPSDIOStream.__exit__ returns None: the exception is not suppressed.
ExitSuppresses == FALSE

Open_call ==
    /\ pc = "call"
    /\ ores' = open_(oargs)
    /\ pc' = IF ores'.outcome = "Stream" THEN "with" ELSE "failed"
    /\ UNCHANGED <<streamVars, copyVars, filterVars, sortVars, oargs, schemaVars>>

\* `with gpsdio.open(...) as src:` is left, by the end of its body or by an
\* exception: __exit__ closes the wrapped codec.
With_exit ==
    /\ pc = "with"
    /\ \E exc \in BOOLEAN :
         ores' = [ores EXCEPT !.codec_handle = IF CodecClose(FALSE) THEN "closed" ELSE @,
                              !.exc = exc,
                              !.propagated = exc /\ ~ExitSuppresses]
    /\ pc' = "left"
    /\ UNCHANGED <<streamVars, copyVars, filterVars, sortVars, oargs, schemaVars>>

NoOpen == OpenResult("none", Omitted, Omitted, "none", "none", "none")

InitOpen ==
    /\ IdleStream
    /\ IdleCopy
    /\ IdleFilter
    /\ IdleSort
    /\ IdleSchema
    /\ oargs \in OpenArgs
    /\ ores = NoOpen
    /\ pc = "call"

NextOpen ==
    \/ Open_call
    \/ With_exit

SpecOpen == InitOpen /\ [][NextOpen]_vars

---------------------------------------------------------------------------
(* Claims about open(), checked under SpecOpen                              *)

Called == pc # "call"

\* C13: every handle acquired by open() is released on every exit path:
\* (a) leaving a `with` block over a Stream, normally or by an exception,
\* closes the codec handle and lets the exception through; (b) when open()
\* fails after the compression layer has opened its handle, that handle is
\* closed before the error reaches the caller.
C13_HandlesReleased ==
    /\ pc = "left" =>
         /\ ores.codec_handle = "closed"
         /\ ores.propagated = ores.exc
    /\ (pc = "failed" /\ ores.comp_handle # "none") => ores.comp_handle = "closed"

\* C14: a path target with neither driver nor compression given.  A failed
\* compression detection is not fatal: the codec driver is given the raw
\* target and a Stream is returned when the codec driver accepts it.  A failed
\* container detection fails open() with no Stream and no handle opened.
C14_DetectionFailures ==
    (Called /\ oargs.target = "path" /\ oargs.driver = Omitted /\ oargs.compression = Omitted) =>
        /\ (oargs.drv # Omitted /\ oargs.comp = Omitted) =>
             /\ ores.outcome \in {"Stream", "DriverError"}
             /\ ores.outcome = "Stream" <=> oargs.codecOk
             /\ ores.io_driver = oargs.drv
             /\ ores.comp_driver = Omitted
             /\ ores.comp_handle = "none"
             /\ ores.c_stream = "target"
        /\ oargs.drv = Omitted =>
             /\ ores.outcome = "DetectError"
             /\ pc = "failed"
             /\ ores.comp_handle = "none"
             /\ ores.codec_handle = "none"
             /\ ores.c_stream = "none"

C14_Witness ==
    /\ pc = "with"
    /\ oargs.target = "path" /\ oargs.driver = Omitted /\ oargs.compression = Omitted
    /\ oargs.drv = "MsgPack" /\ oargs.comp = Omitted
    /\ ores.outcome = "Stream" /\ ores.c_stream = "target"

\* The compression driver a call selects from the target's name when the
\* argument is omitted, as the claim C15 states it: for every kind of target.
DetectedCompression(a) == NameOf(a).comp

\* Open() got as far as choosing both drivers.
DriversChosen == Called /\ ores.outcome \in {"Stream", "DriverError", "IOError"}

\* C15 as stated: for a path and for an open handle with a name alike, an
\* omitted compression is detected from the name and applied (none only when
\* detection fails), and an omitted driver is detected from the name.
C15_DetectsForEveryTarget ==
    /\ (DriversChosen /\ oargs.compression = Omitted) =>
          ores.comp_driver = DetectedCompression(oargs)
    /\ (DriversChosen /\ oargs.driver = Omitted) =>
          ores.io_driver = NameOf(oargs).drv

\* C15 amended: an omitted compression is detected from the name, and applied,
\* for a path target only (none when detection fails); for an open handle an
\* omitted compression means no compression and the handle itself goes to the
\* codec driver.  An omitted driver is detected from the name for both.
C15_DetectsForPaths ==
    /\ (DriversChosen /\ oargs.compression = Omitted /\ oargs.target = "path") =>
          /\ ores.comp_driver = DetectedCompression(oargs)
          /\ (ores.outcome # "IOError" /\ ores.comp_driver # Omitted) =>
                (ores.c_stream = "comp" /\ ores.comp_handle = "open")
          /\ ores.comp_driver = Omitted => ores.c_stream = "target"
    /\ (DriversChosen /\ oargs.compression = Omitted /\ oargs.target # "path") =>
          /\ ores.comp_driver = Omitted
          /\ ores.c_stream = "target"
          /\ ores.comp_handle = "none"
    /\ (DriversChosen /\ oargs.driver = Omitted) =>
          /\ ores.io_driver = NameOf(oargs).drv
          /\ ores.io_driver # Omitted

C15_Witness ==
    /\ pc = "with"
    /\ oargs.target = "path" /\ oargs.driver = Omitted /\ oargs.compression = Omitted
    /\ oargs.drv = "NewlineJSON" /\ oargs.comp = "BZ2"
    /\ ores.io_driver = "NewlineJSON" /\ ores.comp_driver = "BZ2"
    /\ ores.c_stream = "comp"

\* The call selected a compression driver.
CompressionSelected ==
    /\ io_driver_of(oargs).err = ""
    /\ comp_driver_of(oargs).err = ""
    /\ comp_driver_of(oargs).drv # Omitted

\* C16: when the selected compression driver cannot operate on the target in
\* the requested mode, open() raises the I/O error, returns no Stream, does
\* not call the codec driver and does not fall back to the raw target.
C16_CompressionFailsFast ==
    (Called /\ CompressionSelected /\ ~oargs.compOk) =>
        /\ ores.outcome = "IOError"
        /\ pc = "failed"
        /\ ores.codec_handle = "none"
        /\ ores.c_stream = "none"

C16_Witness ==
    /\ pc = "failed"
    /\ oargs.target = "dash" /\ oargs.mode = "r"
    /\ oargs.driver = "NewlineJSON" /\ oargs.compression = "GZIP"
    /\ ~oargs.compOk /\ oargs.codecOk
    /\ ores.outcome = "IOError"

Names == registered_drivers \cup registered_compression \cup {"bad-name"}

\* C17: a name that is not registered resolves to a lookup error and a
\* registered name to its driver; an unregistered driver or compression
\* argument fails open(), for a path and a file-like target, before any
\* compression or codec handle is opened.
C17_UnregisteredNameFails ==
    /\ \A n \in Names :
         /\ resolve(registered_drivers, n) =
              (IF n \in registered_drivers THEN Found(n) ELSE Failed("KeyError"))
         /\ resolve(registered_compression, n) =
              (IF n \in registered_compression THEN Found(n) ELSE Failed("KeyError"))
    /\ (Called /\ oargs.driver # Omitted /\ oargs.driver \notin registered_drivers) =>
         /\ ores.outcome = "KeyError"
         /\ pc = "failed"
         /\ ores.comp_handle = "none" /\ ores.codec_handle = "none"
    /\ (Called /\ oargs.compression # Omitted
               /\ oargs.compression \notin registered_compression) =>
         /\ ores.outcome \in {"KeyError", "DetectError"}
         /\ ores.outcome = "DetectError" =>
               (oargs.driver = Omitted /\ NameOf(oargs).drv = Omitted)
         /\ pc = "failed"
         /\ ores.comp_handle = "none" /\ ores.codec_handle = "none"
    /\ (Called /\ oargs.driver \in registered_drivers) =>
         ores.io_driver = oargs.driver

C17_Witness ==
    /\ pc = "failed"
    /\ oargs.target = "file" /\ oargs.drv = "NewlineJSON"
    /\ oargs.driver = Omitted /\ oargs.compression = "bad-name"
    /\ oargs.compOk /\ oargs.codecOk
    /\ ores.outcome = "KeyError"

---------------------------------------------------------------------------
(* The schema tables and build_schema / merge_fields                        *)

\* A key a dictionary does not hold.
Absent == ""

\* A field definition, by the keys that name things: which definition it is,
\* its 'name' key (the documented alias) and its 'sub_name' key (the one
\* build_schema reads).  Validator, units, description and default decide
\* nothing here.
FieldDefinition(of, name, sub_name) == [of |-> of, name |-> name, sub_name |-> sub_name]

\* The keys of _FIELDS.
BuiltinFieldNames ==
    {
     "type", "repeat", "mmsi", "status", "turn", "speed", "accuracy", "lon",
     "lat", "course", "heading", "second", "maneuver", "raim", "regional",
     "radio", "year", "month", "day", "hour", "minute", "epfd",
     "ais_version", "imo", "callsign", "shiptype", "to_bow", "to_stern",
     "to_port", "to_starboard", "draught", "dte", "seqno", "dest_mmsi",
     "retransmit", "dac", "fid", "data", "mmsi1", "mmsiseq1", "mmsi2",
     "mmsiseq2", "mmsi3", "mmsiseq3", "mmsi4", "mmsiseq4", "alt", "speed9",
     "assigned", "text", "type1_1", "offset1_1", "offset1_2", "offset2_1",
     "type1_2", "type2_1", "offset1", "offset2", "offset3", "offset4",
     "increment1", "increment2", "increment3", "increment4", "spare", "cs",
     "display", "dsc", "band", "msg22", "number1", "number2", "number3",
     "number4", "timeout1", "timeout2", "timeout3", "timeout4", "aid_type",
     "name_extension", "txrx", "power", "ne_lon", "ne_lat", "sw_lon",
     "sw_lat", "dest1", "dest2", "band_a", "band_b", "zonesize",
     "station_type", "ship_type", "interval", "quiet", "partno", "vendorid",
     "model", "serial", "mothership_mmsi", "addressed", "structured",
     "app_id", "gnss", "destination", "shipname", "reserved", "name",
     "off_position", "virtual_aid", "channel_a", "channel_b", "timestamp"
    }

\* _FIELDS: only 'speed9' carries a 'name' key and no definition carries a
\* 'sub_name' key.
_FIELDS ==
    [fld \in BuiltinFieldNames |->
        FieldDefinition(fld, IF fld = "speed9" THEN "speed" ELSE Absent, Absent)]

_FIELDS_BY_TYPE ==
    1 :> <<
        "accuracy", "course", "heading", "lat", "lon", "maneuver", "mmsi",
        "spare", "radio", "raim", "repeat", "second", "speed", "status",
        "turn", "type", "timestamp"
    >> @@
    2 :> <<
        "accuracy", "course", "heading", "lat", "lon", "maneuver", "mmsi",
        "spare", "radio", "raim", "repeat", "second", "speed", "status",
        "turn", "type", "timestamp"
    >> @@
    3 :> <<
        "accuracy", "course", "heading", "lat", "lon", "maneuver", "mmsi",
        "spare", "radio", "raim", "repeat", "second", "speed", "status",
        "turn", "type", "timestamp"
    >> @@
    4 :> <<
        "accuracy", "day", "epfd", "hour", "lat", "lon", "minute", "mmsi",
        "month", "radio", "raim", "repeat", "second", "type", "year",
        "spare", "timestamp"
    >> @@
    5 :> <<
        "ais_version", "callsign", "day", "destination", "draught", "dte",
        "epfd", "hour", "imo", "minute", "mmsi", "month", "repeat",
        "shipname", "shiptype", "to_bow", "to_port", "to_starboard",
        "to_stern", "type", "spare", "timestamp"
    >> @@
    6 :> <<
        "type", "repeat", "mmsi", "seqno", "dest_mmsi", "retransmit",
        "spare", "dac", "fid", "data", "timestamp"
    >> @@
    7 :> <<
        "day", "destination", "draught", "dte", "epfd", "hour", "minute",
        "mmsi", "mmsi1", "mmsi2", "mmsi3", "mmsi4", "mmsiseq1", "mmsiseq2",
        "mmsiseq3", "mmsiseq4", "month", "repeat", "type", "timestamp"
    >> @@
    8 :> <<
        "assigned", "course", "dac", "data", "destination", "draught",
        "dte", "fid", "lat", "minute", "mmsi", "radio", "raim", "regional",
        "repeat", "second", "type", "timestamp"
    >> @@
    9 :> <<
        "accuracy", "alt", "assigned", "course", "destination", "draught",
        "dte", "lat", "lon", "minute", "mmsi", "radio", "raim", "regional",
        "repeat", "second", "speed9", "type", "timestamp"
    >> @@
    10 :> <<
        "assigned", "course", "dest_mmsi", "destination", "draught", "dte",
        "lat", "lon", "minute", "mmsi", "radio", "raim", "regional",
        "repeat", "second", "type", "timestamp"
    >> @@
    11 :> <<
        "accuracy", "day", "epfd", "hour", "lat", "lon", "minute", "mmsi",
        "month", "radio", "raim", "repeat", "second", "type", "year",
        "timestamp"
    >> @@
    12 :> <<
        "assigned", "course", "dest_mmsi", "destination", "draught", "dte",
        "minute", "mmsi", "radio", "raim", "regional", "repeat",
        "retransmit", "second", "seqno", "text", "type", "timestamp"
    >> @@
    13 :> <<
        "day", "destination", "draught", "dte", "epfd", "hour", "minute",
        "mmsi", "mmsi1", "mmsi2", "mmsi3", "mmsi4", "mmsiseq1", "mmsiseq2",
        "mmsiseq3", "mmsiseq4", "month", "repeat", "type", "timestamp"
    >> @@
    14 :> <<
        "assigned", "course", "destination", "draught", "dte", "minute",
        "mmsi", "radio", "raim", "regional", "repeat", "retransmit",
        "second", "text", "type", "timestamp"
    >> @@
    15 :> <<
        "destination", "draught", "dte", "minute", "mmsi", "mmsi1", "mmsi2",
        "offset1_1", "offset1_2", "offset2_1", "radio", "repeat", "type",
        "type1_1", "type1_2", "type2_1", "timestamp"
    >> @@
    16 :> <<
        "destination", "draught", "dte", "increment1", "minute", "mmsi",
        "mmsi1", "mmsi2", "offset1", "offset2", "offset2_1", "radio",
        "repeat", "type", "type2_1", "timestamp"
    >> @@
    17 :> <<
        "data", "lat", "lon", "mmsi", "repeat", "type", "timestamp"
    >> @@
    18 :> <<
        "accuracy", "assigned", "band", "course", "cs", "display", "dsc",
        "heading", "lat", "lon", "mmsi", "msg22", "radio", "raim",
        "regional", "repeat", "reserved", "second", "speed", "type",
        "timestamp"
    >> @@
    19 :> <<
        "accuracy", "assigned", "course", "dte", "epfd", "heading", "lat",
        "lon", "mmsi", "raim", "regional", "repeat", "reserved", "second",
        "shipname", "shiptype", "speed", "to_bow", "to_port",
        "to_starboard", "to_stern", "type", "timestamp"
    >> @@
    20 :> <<
        "assigned", "dte", "increment1", "increment2", "increment3",
        "increment4", "mmsi", "number1", "number2", "number3", "number4",
        "offset1", "offset2", "offset3", "offset4", "repeat", "timeout1",
        "timeout2", "timeout3", "timeout4", "type", "timestamp"
    >> @@
    21 :> <<
        "accuracy", "aid_type", "assigned", "epfd", "lat", "lon", "mmsi",
        "name", "off_position", "raim", "regional", "repeat", "second",
        "to_bow", "to_port", "to_starboard", "to_stern", "type",
        "virtual_aid", "timestamp"
    >> @@
    22 :> <<
        "addressed", "assigned", "band_a", "band_b", "channel_a",
        "channel_b", "dest1", "dest2", "mmsi", "ne_lat", "ne_lon", "power",
        "repeat", "sw_lat", "sw_lon", "txrx", "type", "zonesize",
        "timestamp"
    >> @@
    23 :> <<
        "assigned", "band_a", "band_b", "interval", "mmsi", "ne_lat",
        "ne_lon", "quiet", "repeat", "ship_type", "station_type", "sw_lat",
        "sw_lon", "txrx", "type", "zonesize", "timestamp"
    >> @@
    24 :> <<
        "assigned", "callsign", "mmsi", "model", "mothership_mmsi",
        "partno", "repeat", "serial", "shipname", "shiptype", "to_bow",
        "to_port", "to_starboard", "to_stern", "type", "vendorid",
        "zonesize", "timestamp"
    >> @@
    25 :> <<
        "addressed", "app_id", "assigned", "callsign", "data", "dest_mmsi",
        "mmsi", "model", "mothership_mmsi", "repeat", "serial",
        "structured", "to_bow", "to_port", "to_starboard", "to_stern",
        "type", "zonesize", "timestamp"
    >> @@
    26 :> <<
        "addressed", "app_id", "assigned", "callsign", "data", "dest_mmsi",
        "mmsi", "mothership_mmsi", "radio", "repeat", "serial",
        "structured", "to_bow", "to_port", "to_starboard", "to_stern",
        "type", "zonesize", "timestamp"
    >> @@
    27 :> <<
        "accuracy", "assigned", "course", "gnss", "lat", "lon", "mmsi",
        "mothership_mmsi", "raim", "repeat", "speed", "status", "to_port",
        "to_starboard", "to_stern", "type", "zonesize", "timestamp"
    >>

\* {}
EmptyDict == <<>>

\* An update that keeps the value already present.
Update_KeepFirst(acc, flds) ==
    [k \in DOMAIN acc \cup DOMAIN flds |-> IF k \in DOMAIN acc THEN acc[k] ELSE flds[k]]

\* out.update(**flds)
Update(acc, flds) ==
    [k \in DOMAIN acc \cup DOMAIN flds |-> IF k \in DOMAIN flds THEN flds[k] ELSE acc[k]]

RECURSIVE merge_fields_from(_, _, _)
merge_fields_from(acc, fields, n) ==
    IF n > Len(fields) THEN acc
    ELSE merge_fields_from(Update(acc, fields[n]), fields, n + 1)

\* merge_fields(*fields)
merge_fields(fields) == merge_fields_from(EmptyDict, fields, 1)

\* out[mtype] of the defaultdict(list)
TypeFields(acc, mtype) == IF mtype \in DOMAIN acc THEN acc[mtype] ELSE <<>>

\* for mtype, fields in six.iteritems(fdef): out[mtype] = tuple(chain(fields, out[mtype]))
Chain(acc, fdef) ==
    [mtype \in DOMAIN acc \cup DOMAIN fdef |->
        IF mtype \in DOMAIN fdef THEN fdef[mtype] \o TypeFields(acc, mtype) ELSE acc[mtype]]

RECURSIVE merge_fields_by_type_from(_, _, _)
merge_fields_by_type_from(acc, fbt, n) ==
    IF n > Len(fbt) THEN acc
    ELSE merge_fields_by_type_from(Chain(acc, fbt[n]), fbt, n + 1)

\* merge_fields_by_type(*fbt)
merge_fields_by_type(fbt) == merge_fields_by_type_from(EmptyDict, fbt, 1)

\* fields[fld].get('sub_name', fld)
SubName(fields, fld) ==
    IF fields[fld].sub_name # Absent THEN fields[fld].sub_name ELSE fld

\* The lookups of the inner loop that raise KeyError: fields[fld], fields[name].
LookupFails(fields, fld) ==
    \/ fld \notin DOMAIN fields
    \/ SubName(fields, fld) \notin DOMAIN fields

Range(f) == {f[x] : x \in DOMAIN f}

\* The loops of build_schema over given tables: a KeyError leaves no result.
build_schema_of(fields_by_type, fields) ==
    IF \E mtype \in DOMAIN fields_by_type :
           \E fld \in Range(fields_by_type[mtype]) : LookupFails(fields, fld)
    THEN [raised |-> "KeyError", out |-> EmptyDict]
    ELSE [raised |-> Absent,
          out |-> [mtype \in DOMAIN fields_by_type |->
                     [name \in {SubName(fields, fld) : fld \in Range(fields_by_type[mtype])} |->
                         fields[name]]]]

\* The tables build_schema() uses when none is passed.
DefaultFieldsByType(extensions) ==
    IF extensions THEN merge_fields_by_type(<<_FIELDS_BY_TYPE, FIELDS_BY_TYPE_EXTENSIONS>>)
    ELSE _FIELDS_BY_TYPE
DefaultFields(extensions) ==
    IF extensions THEN merge_fields(<<_FIELDS, FIELD_EXTENSIONS>>) ELSE _FIELDS

\* build_schema(fields_by_type=None, fields=None, extensions)
build_schema(extensions) ==
    build_schema_of(DefaultFieldsByType(extensions), DefaultFields(extensions))

\* Field tables an extension entry point may load: a field whose 'sub_name'
\* names the field 'foo', the field 'foo' itself, and another definition of
\* the built-in 'speed'.
FieldExtensionTables ==
    {"foo9" :> FieldDefinition("ext:foo9", Absent, "foo"),
     "foo" :> FieldDefinition("ext:foo", Absent, Absent),
     "speed" :> FieldDefinition("ext:speed", Absent, Absent)}

\* The number of a message type no built-in table knows.
NewType == 28

\* Fields-by-type tables an extension entry point may load.
FieldsByTypeExtensionTables ==
    {NewType :> <<"foo9">>,
     1 :> <<"foo">>,
     5 :> <<"mmsi">>}

\* Tables merge_fields is called with.
MergeTables ==
    FieldExtensionTables \cup
    {EmptyDict,
     ("foo" :> FieldDefinition("other:foo", Absent, Absent)) @@
     ("foo9" :> FieldDefinition("other:foo9", Absent, Absent))}

\* A call of a schema function: its arguments, the arguments as they are
\* after the call, the error raised (Absent: none) and the value returned.
SchemaCall(call, args, after, raised, result) ==
    [call |-> call, args |-> args, after |-> after, raised |-> raised, result |-> result]

NoSchemaCall == SchemaCall("none", <<>>, <<>>, Absent, EmptyDict)

\* _HUMAN_TYPE_DESCRIPTION as the module defines it.
BuiltinTypeDescriptions ==
    1 :> "Position Report Class A" @@
    2 :> "Position Report Class A" @@
    3 :> "Position Report Class A" @@
    4 :> "Base Station Report" @@
    5 :> "Static and Voyage Related Data" @@
    6 :> "Binary Addressed Message" @@
    7 :> "Binary Acknowledge" @@
    8 :> "Binary Broadcast Message" @@
    9 :> "Standard SAR Aircraft Position Report" @@
    10 :> "UTC/Date Inquiry" @@
    11 :> "UTC/Date Response" @@
    12 :> "Addressed Safety-Related Message" @@
    13 :> "Safety-Related Acknowledgement" @@
    14 :> "Safety-Related Broadcast Message" @@
    15 :> "Interrogation" @@
    16 :> "Assignment Mode Command" @@
    17 :> "DGNSS Broadcast Binary Message" @@
    18 :> "Standard Class B CS Position Report" @@
    19 :> "Extended Class B CS Position Report" @@
    20 :> "Data Link Management Message" @@
    21 :> "Aid-to-Navigation Report" @@
    22 :> "Channel Management" @@
    23 :> "Group Assignment Command" @@
    24 :> "Static Data Report" @@
    25 :> "Single Slot Binary Message" @@
    26 :> "Multiple Slot Binary Message" @@
    27 :> "Long Range AIS Broadcast message"

\* Type description tables an extension entry point may load: keyed by the
\* message type, as the built-in table is.
TypeDescriptionTables ==
    {NewType :> "New Type",
     1 :> "Position Report"}

\* An entry point the loops have processed: its group, whether its load()
\* raised, and the table load() returned otherwise.
EntryPoint(group, raises, table) == [group |-> group, raises |-> raises, table |-> table]

\* dct.update(**table) for a table keyed by integers: `**` takes string
\* keywords only, a TypeError where the interpreter enforces it.
UpdateKeywordsRaises == strict_keywords

\* One turn of the loop over iter_entry_points('gpsdio.field_extensions'):
\* an exception of ep.load() or of the merge is logged and the loop goes on.
Load_field_extension ==
    /\ pc = "import"
    /\ loaded < MaxExts
    /\ \/ \E ext \in FieldExtensionTables :
            /\ FIELD_EXTENSIONS' = merge_fields(<<FIELD_EXTENSIONS, ext>>)
            /\ eps' = Append(eps, EntryPoint("fields", FALSE, ext))
       \/ /\ eps' = Append(eps, EntryPoint("fields", TRUE, EmptyDict))
          /\ UNCHANGED FIELD_EXTENSIONS
    /\ loaded' = loaded + 1
    /\ UNCHANGED <<streamVars, copyVars, filterVars, sortVars, openVars>>
    /\ UNCHANGED <<pc, FIELDS_BY_TYPE_EXTENSIONS, sres, _HUMAN_TYPE_DESCRIPTION, strict_keywords>>

\* One turn of the loop over iter_entry_points('gpsdio.fields_by_type_extensions').
Load_fields_by_type_extension ==
    /\ pc = "import"
    /\ loaded < MaxExts
    /\ \/ \E ext \in FieldsByTypeExtensionTables :
            /\ FIELDS_BY_TYPE_EXTENSIONS' =
                 merge_fields_by_type(<<FIELDS_BY_TYPE_EXTENSIONS, ext>>)
            /\ eps' = Append(eps, EntryPoint("fields_by_type", FALSE, ext))
       \/ /\ eps' = Append(eps, EntryPoint("fields_by_type", TRUE, EmptyDict))
          /\ UNCHANGED FIELDS_BY_TYPE_EXTENSIONS
    /\ loaded' = loaded + 1
    /\ UNCHANGED <<streamVars, copyVars, filterVars, sortVars, openVars>>
    /\ UNCHANGED <<pc, FIELD_EXTENSIONS, sres, _HUMAN_TYPE_DESCRIPTION, strict_keywords>>

\* One turn of the loop over iter_entry_points('gpsdio.human_type_descriptions'):
\* _HUMAN_TYPE_DESCRIPTION.update(**ep.load()) inside the try block.
Load_human_type_descriptions ==
    /\ pc = "import"
    /\ loaded < MaxExts
    /\ \/ \E ext \in TypeDescriptionTables :
            /\ _HUMAN_TYPE_DESCRIPTION' =
                 IF UpdateKeywordsRaises THEN _HUMAN_TYPE_DESCRIPTION
                 ELSE Update(_HUMAN_TYPE_DESCRIPTION, ext)
            /\ eps' = Append(eps, EntryPoint("human_type_descriptions", FALSE, ext))
       \/ /\ eps' = Append(eps, EntryPoint("human_type_descriptions", TRUE, EmptyDict))
          /\ UNCHANGED _HUMAN_TYPE_DESCRIPTION
    /\ loaded' = loaded + 1
    /\ UNCHANGED <<streamVars, copyVars, filterVars, sortVars, openVars>>
    /\ UNCHANGED <<pc, FIELD_EXTENSIONS, FIELDS_BY_TYPE_EXTENSIONS, sres, strict_keywords>>

\* build_schema() or build_schema(extensions=False), with the extensions loaded
\* so far.  The schema functions read the module's tables and change nothing,
\* so a behaviour follows one call.
Call_build_schema ==
    /\ pc = "import"
    /\ \E extensions \in BOOLEAN :
         LET r == build_schema(extensions) IN
           sres' = SchemaCall("build_schema", <<extensions>>, <<extensions>>, r.raised, r.out)
    /\ pc' = "ready"
    /\ UNCHANGED <<streamVars, copyVars, filterVars, sortVars, openVars>>
    /\ UNCHANGED <<FIELD_EXTENSIONS, FIELDS_BY_TYPE_EXTENSIONS, loaded, regVars>>

\* merge_fields(*fields): the result is a new dictionary, the arguments are
\* only read.
Call_merge_fields ==
    /\ pc = "import"
    /\ \E fields \in SeqsUpTo(MergeTables, MaxTables) :
         sres' = SchemaCall("merge_fields", fields, fields, Absent, merge_fields(fields))
    /\ pc' = "ready"
    /\ UNCHANGED <<streamVars, copyVars, filterVars, sortVars, openVars>>
    /\ UNCHANGED <<FIELD_EXTENSIONS, FIELDS_BY_TYPE_EXTENSIONS, loaded, regVars>>

\* Tables merge_fields_by_type is called with.
MergeByTypeTables ==
    FieldsByTypeExtensionTables \cup
    {EmptyDict,
     (1 :> <<"mmsi", "foo">>) @@ (5 :> <<"mmsi">>)}

\* merge_fields_by_type(*fbt)
Call_merge_fields_by_type ==
    /\ pc = "import"
    /\ \E fbt \in SeqsUpTo(MergeByTypeTables, MaxTables) :
         sres' = SchemaCall("merge_fields_by_type", fbt, fbt, Absent, merge_fields_by_type(fbt))
    /\ pc' = "ready"
    /\ UNCHANGED <<streamVars, copyVars, filterVars, sortVars, openVars>>
    /\ UNCHANGED <<FIELD_EXTENSIONS, FIELDS_BY_TYPE_EXTENSIONS, loaded, regVars>>

InitSchema ==
    /\ IdleStream
    /\ IdleCopy
    /\ IdleFilter
    /\ IdleSort
    /\ IdleOpen
    /\ FIELD_EXTENSIONS = EmptyDict
    /\ FIELDS_BY_TYPE_EXTENSIONS = EmptyDict
    /\ loaded = 0
    /\ sres = NoSchemaCall
    /\ _HUMAN_TYPE_DESCRIPTION = BuiltinTypeDescriptions
    /\ eps = <<>>
    /\ strict_keywords \in BOOLEAN
    /\ pc = "import"

NextSchema ==
    \/ Load_field_extension
    \/ Load_fields_by_type_extension
    \/ Load_human_type_descriptions
    \/ Call_build_schema

SpecSchema == InitSchema /\ [][NextSchema]_vars

\* Calls of the merge functions, which read no table of the module.
NextMerge ==
    \/ Call_merge_fields
    \/ Call_merge_fields_by_type

SpecMerge == InitSchema /\ [][NextMerge]_vars

\* Invariant 1 of the data model: every field name of every type's field
\* list has a definition in the field table.
RespectsInvariant1(fields_by_type, fields) ==
    \A mtype \in DOMAIN fields_by_type :
        \A fld \in Range(fields_by_type[mtype]) : fld \in DOMAIN fields

\* The tables the last build_schema call worked on.
CallFieldsByType == DefaultFieldsByType(sres.args[1])
CallFields == DefaultFields(sres.args[1])

\* C19: for the built-in tables, and for their merge with extensions that
\* respect invariant 1, build_schema() raises no configuration error, the
\* types of the result are the types of the fields-by-type table (1..27 among
\* them), and every field name of every type's result is a key of the field
\* table and is mapped to a definition of that table.
C19_SchemaIsConsistent ==
    (sres.call = "build_schema" /\ RespectsInvariant1(CallFieldsByType, CallFields)) =>
        /\ sres.raised = Absent
        /\ DOMAIN sres.result = DOMAIN CallFieldsByType
        /\ 1..27 \subseteq DOMAIN sres.result
        /\ \A mtype \in DOMAIN sres.result :
             \A name \in DOMAIN sres.result[mtype] :
                 /\ name \in DOMAIN CallFields
                 /\ sres.result[mtype][name] \in Range(CallFields)

\* The part of C19 about the built-in tables alone.
BuiltinSchemaIsConsistent ==
    (sres.call = "build_schema" /\ sres.args[1] = FALSE) =>
        /\ RespectsInvariant1(_FIELDS_BY_TYPE, _FIELDS)
        /\ sres.raised = Absent
        /\ DOMAIN sres.result = 1..27
        /\ \A mtype \in 1..27 :
             /\ DOMAIN sres.result[mtype] = Range(_FIELDS_BY_TYPE[mtype])
             /\ \A name \in DOMAIN sres.result[mtype] :
                  sres.result[mtype][name] = _FIELDS[name]

\* The keys of the tables of a call, and the last table holding a key.
KeysOf(fields) == UNION {DOMAIN fields[n] : n \in 1..Len(fields)}
LastWith(fields, k) ==
    CHOOSE n \in 1..Len(fields) :
        /\ k \in DOMAIN fields[n]
        /\ \A later \in (n + 1)..Len(fields) : k \notin DOMAIN fields[later]

\* C20: merge_fields(t1, ..., tn) returns a table whose keys are the union of
\* the inputs' keys and whose value for a key is that of the last input
\* holding the key; a single table, or a table merged with an empty one, comes
\* back equal; no input table is modified.
C20_MergeLastWins ==
    sres.call = "merge_fields" =>
        /\ sres.raised = Absent
        /\ DOMAIN sres.result = KeysOf(sres.args)
        /\ \A k \in KeysOf(sres.args) :
             sres.result[k] = sres.args[LastWith(sres.args, k)][k]
        /\ Len(sres.args) = 1 => sres.result = sres.args[1]
        /\ (Len(sres.args) = 2 /\ sres.args[2] = EmptyDict) => sres.result = sres.args[1]
        /\ (Len(sres.args) = 2 /\ sres.args[1] = EmptyDict) => sres.result = sres.args[2]
        /\ sres.after = sres.args

C20_Witness ==
    /\ sres.call = "merge_fields"
    /\ Len(sres.args) = 3
    /\ sres.args[1] = ("foo9" :> FieldDefinition("ext:foo9", Absent, "foo"))
    /\ sres.args[2] =
         (("foo" :> FieldDefinition("other:foo", Absent, Absent)) @@
          ("foo9" :> FieldDefinition("other:foo9", Absent, Absent)))
    /\ sres.args[3] = ("foo" :> FieldDefinition("ext:foo", Absent, Absent))
    /\ sres.result =
         (("foo" :> FieldDefinition("ext:foo", Absent, Absent)) @@
          ("foo9" :> FieldDefinition("other:foo9", Absent, Absent)))

\* The types of the tables of a call, and the names the tables list for a type.
TypesOf(fbt) == UNION {DOMAIN fbt[n] : n \in 1..Len(fbt)}
NamesOf(fbt, mtype) ==
    UNION {Range(fbt[n][mtype]) : n \in {k \in 1..Len(fbt) : mtype \in DOMAIN fbt[k]}}

\* C21: merge_fields_by_type(t1, ..., tn) returns, for every type of any
\* input, the union of the type's field names over the inputs with duplicates
\* collapsed: every name occurs exactly once, also when two inputs list the
\* same name for the same type.
C21_MergeByTypeIsUnion ==
    sres.call = "merge_fields_by_type" =>
        /\ sres.raised = Absent
        /\ DOMAIN sres.result = TypesOf(sres.args)
        /\ \A mtype \in DOMAIN sres.result :
             /\ Range(sres.result[mtype]) = NamesOf(sres.args, mtype)
             /\ Len(sres.result[mtype]) = Cardinality(Range(sres.result[mtype]))

\* The entry points of a group whose load() returned a table, in order.
IsFields(ep) == ep.group = "fields" /\ ~ep.raises
IsFieldsByType(ep) == ep.group = "fields_by_type" /\ ~ep.raises
IsTypeDescriptions(ep) == ep.group = "human_type_descriptions" /\ ~ep.raises
TablesOf(selected) == [n \in 1..Len(selected) |-> selected[n].table]

\* A registry after the tables are merged into it, one after the other.
RECURSIVE FieldsByTypeAfter(_, _, _)
FieldsByTypeAfter(registry, tables, n) ==
    IF n > Len(tables) THEN registry
    ELSE FieldsByTypeAfter(merge_fields_by_type(<<registry, tables[n]>>), tables, n + 1)

\* C22: an extension whose loading fails is skipped and registration goes on:
\* no error leaves the registration step, and each of the three registries
\* (fields, fields by type, type descriptions) holds, merged in order, the
\* table of every entry point of its group that loaded, before and after the
\* failing one.
C22_FailedExtensionIsSkipped ==
    (\E n \in 1..Len(eps) : eps[n].raises) =>
        /\ pc # "raised"
        /\ loaded = Len(eps)
        /\ FIELD_EXTENSIONS = merge_fields(TablesOf(SelectSeq(eps, IsFields)))
        /\ FIELDS_BY_TYPE_EXTENSIONS =
             FieldsByTypeAfter(EmptyDict, TablesOf(SelectSeq(eps, IsFieldsByType)), 1)
        /\ _HUMAN_TYPE_DESCRIPTION =
             merge_fields(<<BuiltinTypeDescriptions>> \o
                          TablesOf(SelectSeq(eps, IsTypeDescriptions)))

\* Failures are skipped in the first two groups, and in the third where the
\* interpreter lets a table keyed by integers through `**`.
FieldGroupsSkipFailures ==
    /\ pc # "raised"
    /\ FIELD_EXTENSIONS = merge_fields(TablesOf(SelectSeq(eps, IsFields)))
    /\ FIELDS_BY_TYPE_EXTENSIONS =
         FieldsByTypeAfter(EmptyDict, TablesOf(SelectSeq(eps, IsFieldsByType)), 1)
    /\ ~strict_keywords =>
         _HUMAN_TYPE_DESCRIPTION =
           merge_fields(<<BuiltinTypeDescriptions>> \o TablesOf(SelectSeq(eps, IsTypeDescriptions)))

\* The alias a field definition declares: its 'name' key, as the module's
\* docstring has it and _FIELDS['speed9'] uses it, or its 'sub_name' key.
DeclaredAlias(definition) ==
    IF definition.name # Absent THEN definition.name ELSE definition.sub_name

\* C23: build_schema resolves aliases: where a type's field list holds a
\* field f whose definition declares the alias a, the type's result has the
\* key a, mapped to the definition of f itself; with the built-in tables
\* type 9 has the key 'speed' with the definition of 'speed9'.  A field list
\* naming a field with no definition fails with a configuration error and
\* returns no partial schema.
C23_AliasesResolved ==
    sres.call = "build_schema" =>
        /\ RespectsInvariant1(CallFieldsByType, CallFields) =>
             /\ sres.raised = Absent
             /\ \A mtype \in DOMAIN CallFieldsByType :
                  \A fld \in Range(CallFieldsByType[mtype]) :
                      LET a == DeclaredAlias(CallFields[fld]) IN
                        a # Absent =>
                          /\ a \in DOMAIN sres.result[mtype]
                          /\ sres.result[mtype][a] = CallFields[fld]
        /\ sres.args[1] = FALSE =>
             /\ "speed" \in DOMAIN sres.result[9]
             /\ sres.result[9]["speed"] = _FIELDS["speed9"]
        /\ ~RespectsInvariant1(CallFieldsByType, CallFields) =>
             /\ sres.raised = "KeyError"
             /\ sres.result = EmptyDict

\* The second half of C23: an undefined field name fails the whole call.
UndefinedFieldFails ==
    (sres.call = "build_schema" /\ ~RespectsInvariant1(CallFieldsByType, CallFields)) =>
        /\ sres.raised = "KeyError"
        /\ sres.result = EmptyDict

---------------------------------------------------------------------------
(* Coercion in the stream, field by field; checked under Spec               *)

\* `cooked` has the fields of `raw`, the fields with no coercion function
\* unchanged, and is `raw` itself when conversion is off.
FieldWise(raw, cooked, conv) ==
    /\ DOMAIN cooked = DOMAIN raw
    /\ \A f \in DOMAIN raw : f \notin CoercedFields => cooked[f] = raw[f]
    /\ ~conv => cooked = raw

\* C24: coercion is field-wise over the present fields: a message returned
\* by a successful next(), and a mapping forwarded by a successful write(),
\* has exactly the field names of the raw input mapping (no default injected,
\* no field dropped), carries every field without a coercion function
\* unchanged, and is the input mapping itself when convert is off.
C24_CoercionIsFieldWise ==
    /\ (ret.call = "next" /\ ret.outcome = "return" /\ ret.value # None) =>
         FieldWise(src[ret.idx].msg, ret.value, convert)
    /\ (ret.call = "write" /\ ret.outcome = "return" /\ ret.stored /\ ret.arg # None) =>
         FieldWise(ret.arg, ret.fwd, convert)

C24_Witness ==
    /\ ret.call = "next" /\ ret.outcome = "return" /\ convert
    /\ src[ret.idx].msg = MsgB
    /\ ret.value = MsgBdt

---------------------------------------------------------------------------
(* sort over a source with equal values of the field; checked under SpecSort *)

\* C25: for any finite source, also one in which messages share a value of
\* the sort field, sort does not raise, has yielded by its end every message
\* that carries the field exactly once, and emits messages of equal field
\* value in their order of arrival.
C25_SortHandlesTies ==
    /\ pc # "raised"
    /\ pc = "done" =>
         /\ {sout[n].obj : n \in 1..Len(sout)} = WithField
         /\ Len(sout) = Cardinality(WithField)
    /\ \A n, k \in 1..Len(sout) :
         (n < k /\ sout[n].val[field] = sout[k].val[field]) => sout[n].obj < sout[k].obj

\* What holds with ties all the same: unless the comparison of two dicts
\* raised, every message with the field is yielded once, in an order that
\* never descends.
SortedUnlessRaised ==
    /\ pc = "done" =>
         /\ {sout[n].obj : n \in 1..Len(sout)} = WithField
         /\ Len(sout) = Cardinality(WithField)
    /\ \A n, k \in 1..Len(sout) : n < k => sout[n].val[field].v <= sout[k].val[field].v

====
